---- MODULE Spec2Model ----
(***************************************************************************)
(* A model of funcx_web_service/routes/redis_q.py: RedisQueue (connect,    *)
(* get, put, is_connected) and EndpointQueue (enqueue, dequeue), run by    *)
(* several client instances against one shared Redis store.                *)
(*                                                                         *)
(* The store is one key space.  A key holds a list (RPUSH / BLPOP) or a    *)
(* hash (HSET / HGET); a command on a key of the other type fails with     *)
(* WRONGTYPE (redis.exceptions.ResponseError).  A list that becomes empty  *)
(* no longer exists as a key.  BLPOP on an empty list blocks the client;   *)
(* an RPUSH on a key with blocked clients serves the client that has been  *)
(* waiting longest, within the RPUSH; BLPOP with timeout 0 blocks forever. *)
(***************************************************************************)
EXTENDS Integers, Sequences, FiniteSets, TLC

(***************************************************************************)
(* Bounds of the model.                                                    *)
(***************************************************************************)
MaxCalls == 3       \* put, enqueue, get and dequeue calls made in one behaviour
MaxTimeout == 1     \* largest timeout, in seconds, given to get / dequeue
MaxConnect == 2     \* connections one instance may build

Clients == {"c1", "c2"}
Endpoints == {"a", "b"}
\* "a_list" is a legal (opaque) task id whose hash key is the list key of "a"
TaskIds == {"t1", "a_list"}
Kinds == {"result", "args"}
Timeouts == 0..MaxTimeout

None == 0           \* self.redis_client = None

(***************************************************************************)
(* Python payloads and their JSON text.  A payload is a dict, written as   *)
(* the set of its items; an item has a key (str or int) and a value (str,  *)
(* int, list, tuple or set; v lists the printed elements).                 *)
(***************************************************************************)
PayStr == {[kty |-> "str", k |-> "a", vty |-> "int", v |-> <<"1">>]}
PayIntKey == {[kty |-> "int", k |-> "1", vty |-> "str", v |-> <<"x">>]}
PaySet == {[kty |-> "str", k |-> "a", vty |-> "set", v |-> <<"1">>]}
Payloads == {PayStr, PayIntKey, PaySet}

\* json.dumps raises TypeError for a value it cannot serialize (a set)
Serializable(p) ==
    \A i \in p : i.kty \in {"str", "int"} /\ i.vty \in {"str", "int", "list", "tuple"}

JsonType(vty) ==
    CASE vty = "str" -> "string"
      [] vty = "int" -> "number"
      [] OTHER -> "array"

\* (variant: json.dumps(payload, skipkeys=True) drops the keys that are no str)
JsonDumpsSkipKeys(p) ==
    {[k |-> i.k, jty |-> JsonType(i.vty), v |-> i.v] : i \in {x \in p : x.kty = "str"}}

\* json.dumps(payload): keys become strings, tuples and lists become arrays
JsonDumps(p) == {[k |-> i.k, jty |-> JsonType(i.vty), v |-> i.v] : i \in p}

PyType(jty) ==
    CASE jty = "string" -> "str"
      [] jty = "number" -> "int"
      [] OTHER -> "list"

\* json.loads(text): every key is a str, every array a list
JsonLoads(j) == {[kty |-> "str", k |-> m.k, vty |-> PyType(m.jty), v |-> m.v] : m \in j}

\* a text that is no JSON document (here: cut off after the first brace)
MalformedText == {[k |-> "{", jty |-> "truncated", v |-> <<>>]}
Decodable(text) == \A m \in text : m.jty \in {"string", "number", "array"}

\* (variant: a missing or malformed payload is returned as it is)
DecodeLenient(h, field) == "ok"

\* json.loads(jtask_info) on the reply of HGET: TypeError for None (no such
\* field), json.JSONDecodeError for a text that is no JSON
Decode(h, field) ==
    IF field \notin DOMAIN h THEN "TypeError"
    ELSE IF ~Decodable(h[field]) THEN "JSONDecodeError"
    ELSE "ok"

(***************************************************************************)
(* Key scheme.                                                             *)
(***************************************************************************)
Prefix(e) == "task_" \o e
\* (variant: one list for every endpoint)
SharedQueueName(e) == "task_list"
QueueName(e) == Prefix(e) \o "_list"
HashKey(t) == "task_" \o t

ListKeys == {QueueName(e) : e \in Endpoints}
HashKeys == {HashKey(t) : t \in TaskIds}

WAITING_FOR_EP == "WAITING_FOR_EP"
CREATED == "CREATED"

VARIABLES
    endpoint,       \* endpoint[c]: self.endpoint of client c's EndpointQueue
    redis_client,   \* redis_client[c]: None or the handle of c's connection
    created,        \* created[c]: number of redis.StrictRedis objects c built
    up,             \* the store is reachable
    lists,          \* lists[key]: the list at key, <<>> when the key is no list
    hashes,         \* hashes[key]: the hash at key, empty when the key is no hash
    blocked,        \* blocked[key]: clients blocked in BLPOP on key, oldest first
    task,           \* task[t]: the fields endpoint and status of Task t
    pc,             \* pc[c]: "idle", "put2", "blocked" or "get2"
    call,           \* call[c]: the call c is in
    result,         \* result[c]: how the call c finished in the last step ended
    started,        \* put, enqueue, get and dequeue calls made so far
    npush,          \* appends made so far
    lastPop,        \* lastPop[key]: append number of the entry popped last
    pops,           \* pops[key][t]: times t was popped from key
    appends,        \* appends[key][t]: times t was appended to key
    lastput         \* lastput[c]: the put c made last, if c made no call since

vars == <<endpoint, redis_client, created, up, lists, hashes, blocked,
          task, pc, call, result, started, npush, lastPop, pops, appends, lastput>>

\* An entry of a list: the task id, and (history) the number of the append that
\* put it there, the operation and kind that appended it and that queue's endpoint
NoEntry == [id |-> "", seq |-> 0, by |-> "", kind |-> "", ep |-> ""]
NoPut == [isput |-> FALSE, quiet |-> FALSE, task_id |-> "", kind |-> "", payload |-> {}]
NoCall == [op |-> "none", task_id |-> "", kind |-> "", payload |-> {},
           timeout |-> 0, waited |-> 0, entry |-> NoEntry]
\* had: self.redis_client during the call; timeout, waited: the timeout of a
\* BLPOP that returned nil and the seconds it took (history)
\* after: the put of the same client that a get followed (history)
NoResult == [op |-> "none", status |-> "none", task_id |-> "", payload |-> {},
             entry |-> NoEntry, had |-> None, timeout |-> 0, waited |-> 0,
             after |-> NoPut]
EmptyHash == [f \in {} |-> {}]

\* The records task_<task_id> belong to the collaborator that creates the
\* tasks: a record may exist before the queue is used, and its producer may
\* have written a field that is no JSON.
ForeignTask == "t1"
ForeignRecord == [f \in {"args"} |-> MalformedText]

Init ==
    /\ endpoint \in {f \in [Clients -> Endpoints] : f["c1"] = "a"}
    /\ redis_client = [c \in Clients |-> None]
    /\ created = [c \in Clients |-> 0]
    /\ up = TRUE
    /\ lists = [key \in ListKeys |-> <<>>]
    /\ hashes \in {[key \in HashKeys |-> IF key = HashKey(ForeignTask) THEN r ELSE EmptyHash] :
                       r \in {EmptyHash, ForeignRecord}}
    /\ blocked = [key \in ListKeys |-> <<>>]
    /\ task = [t \in TaskIds |-> [endpoint |-> "", status |-> CREATED]]
    /\ pc = [c \in Clients |-> "idle"]
    /\ call = [c \in Clients |-> NoCall]
    /\ result = [c \in Clients |-> NoResult]
    /\ started = 0
    /\ npush = 0
    /\ lastPop = [key \in ListKeys |-> 0]
    /\ pops = [key \in ListKeys |-> [t \in TaskIds |-> 0]]
    /\ appends = [key \in ListKeys |-> [t \in TaskIds |-> 0]]
    /\ lastput = [c \in Clients |-> NoPut]

(***************************************************************************)
(* The store.                                                              *)
(***************************************************************************)
IsList(key) == key \in ListKeys /\ lists[key] # <<>>
IsHash(key) == key \in HashKeys /\ DOMAIN hashes[key] # {}

\* (variant: the record is replaced by the one field)
HSetWhole(h, field, value) == [f \in {field} |-> value]

\* HSET key field value: sets one field of the hash at key
HSet(h, field, value) ==
    [f \in DOMAIN h \cup {field} |-> IF f = field THEN value ELSE h[f]]

\* (variants: LPUSH, a push repeated, RPOP's element, a read that removes
\* nothing (LINDEX), a pop that deletes the key (DEL))
LPush(l, e) == <<e>> \o l
RPushTwice(l, e) == Append(Append(l, e), e)
RPopped(l) == l[Len(l)]
LIndexRest(l) == l
DelRest(l) == <<>>

\* RPUSH appends at the tail, BLPOP takes the head
RPush(l, e) == Append(l, e)
LPopped(l) == Head(l)
LPopRest(l) == Tail(l)

\* (variant: a store that does not type its keys)
UntypedCommand(key) == IF ~up THEN "ConnectionError" ELSE "ok"

\* a command sent to the store: ConnectionError when it is unreachable (the
\* command is then not run), ResponseError (WRONGTYPE) when the key holds the
\* other type
HashCommand(key) ==
    IF ~up THEN "ConnectionError" ELSE IF IsList(key) THEN "ResponseError" ELSE "ok"
ListCommand(key) ==
    IF ~up THEN "ConnectionError" ELSE IF IsHash(key) THEN "ResponseError" ELSE "ok"

\* (variant: the AttributeError is never raised)
AssumedConnected(c) == FALSE

\* self.redis_client is None: attribute access on it raises AttributeError
NotConnected(c) == redis_client[c] = None

(***************************************************************************)
(* History: lastput[c] is kept while c goes from its put to the get that   *)
(* follows it; quiet records that no other client changed the store.       *)
(***************************************************************************)
Track(c, mine) ==
    lastput' = [d \in Clients |->
        IF d = c THEN mine
        ELSE IF <<lists', hashes', blocked'>> # <<lists, hashes, blocked>>
             THEN [lastput[d] EXCEPT !.quiet = FALSE]
             ELSE lastput[d]]

\* the calls that return in a step
Returns(c, r) == [d \in Clients |-> IF d = c THEN r ELSE NoResult]
NoReturn == [d \in Clients |-> NoResult]

Finished(c, op, status, task_id, payload, entry) ==
    [op |-> op, status |-> status, task_id |-> task_id, payload |-> payload,
     entry |-> entry, had |-> redis_client[c], timeout |-> 0, waited |-> 0,
     after |-> IF op = "get" THEN lastput[c] ELSE NoPut]

(***************************************************************************)
(* RedisQueue.connect                                                      *)
(***************************************************************************)
\* (variant: a connection is built on every call)
AlwaysConnects(c) == TRUE

NeedsConnection(c) == redis_client[c] = None       \* if not self.redis_client

\* redis.StrictRedis(host, port, ...) builds the client object and opens no
\* socket: the client connects to the store when it sends its first command.
\* So the constructor raises no ConnectionError, whether the store is
\* reachable or not.
Connect(c) ==
    /\ pc[c] = "idle"
    /\ created[c] < MaxConnect
    /\ IF NeedsConnection(c)
       THEN /\ created' = [created EXCEPT ![c] = @ + 1]
            /\ redis_client' = [redis_client EXCEPT ![c] = created[c] + 1]
       ELSE UNCHANGED <<created, redis_client>>
    /\ result' = Returns(c, Finished(c, "connect", "ok", "", {}, NoEntry))
    /\ UNCHANGED <<endpoint, up, lists, hashes, blocked, task, pc, call,
                   started, npush, lastPop, pops, appends>>
    /\ Track(c, NoPut)

(***************************************************************************)
(* RedisQueue.is_connected                                                 *)
(***************************************************************************)
\* (variant: the test is inverted)
is_disconnected(c) == redis_client[c] = None

is_connected(c) == redis_client[c] # None      \* self.redis_client is not None

\* a read of the property is_connected, between two calls of the instance
IsConnected(c) ==
    /\ pc[c] = "idle"
    /\ result' = Returns(c, Finished(c, "is_connected",
                                       IF is_connected(c) THEN "True" ELSE "False",
                                       "", {}, NoEntry))
    /\ UNCHANGED <<endpoint, redis_client, created, up, lists, hashes, blocked,
                   task, pc, call, started, npush, lastPop, pops, appends, lastput>>

(***************************************************************************)
(* The effect of a successful RPUSH of task id t on key by client c, which *)
(* then goes on with (cpc, ccall, cres).  With a client blocked on key the *)
(* entry is served to the one blocked longest: a get goes on to its HGET,  *)
(* a dequeue returns Task.from_id(self.redis_client, task_id).             *)
(***************************************************************************)
TaskFromId(t) == t

Push(c, key, t, by, kind, cpc, ccall, cres) ==
    LET e == [id |-> t, seq |-> npush + 1, by |-> by, kind |-> kind, ep |-> endpoint[c]]
        \* (history) a call that goes on after its push keeps the entry it pushed
        mycall == IF ccall.op = "none" THEN ccall ELSE [ccall EXCEPT !.entry = e]
    IN  /\ npush' = npush + 1
        /\ appends' = [appends EXCEPT ![key][t] = @ + 1]
        /\ IF blocked[key] # <<>>
           THEN LET d == Head(blocked[key])
                    isget == call[d].op = "get"
                IN  /\ blocked' = [blocked EXCEPT ![key] = Tail(@)]
                    /\ lists' = [lists EXCEPT ![key] = LPopRest(RPush(@, e))]
                    /\ lastPop' = [lastPop EXCEPT ![key] = LPopped(RPush(lists[key], e)).seq]
                    /\ pops' = [pops EXCEPT ![key][LPopped(RPush(lists[key], e)).id] = @ + 1]
                    /\ pc' = [pc EXCEPT ![c] = cpc, ![d] = IF isget THEN "get2" ELSE "idle"]
                    /\ call' = [call EXCEPT ![c] = mycall,
                                 ![d] = IF isget
                                        THEN [@ EXCEPT !.task_id = LPopped(RPush(lists[key], e)).id,
                                                       !.entry = LPopped(RPush(lists[key], e))]
                                        ELSE NoCall]
                    /\ result' = [Returns(c, cres) EXCEPT
                                   ![d] = IF isget THEN @
                                          ELSE Finished(d, "dequeue", "ok",
                                                   TaskFromId(LPopped(RPush(lists[key], e)).id), {},
                                                   LPopped(RPush(lists[key], e)))]
           ELSE /\ lists' = [lists EXCEPT ![key] = RPush(@, e)]
                /\ pc' = [pc EXCEPT ![c] = cpc]
                /\ call' = [call EXCEPT ![c] = mycall]
                /\ result' = Returns(c, cres)
                /\ UNCHANGED <<blocked, lastPop, pops>>

(***************************************************************************)
(* RedisQueue.put: two commands, in the order of PutOps.                   *)
(***************************************************************************)
\* (variant: the id is pushed before the payload is written)
PutOpsSwapped == <<"rpush", "hset">>

PutOps == <<"hset", "rpush">>

PutOp(c, i, a) ==
    LET key == QueueName(endpoint[c])
        hkey == HashKey(a.task_id)
        outcome == IF PutOps[i] = "hset"
                   THEN IF ~Serializable(a.payload) THEN "TypeError" ELSE HashCommand(hkey)
                   ELSE ListCommand(key)
        done == outcome # "ok" \/ i = Len(PutOps)
        cpc == IF done THEN "idle" ELSE "put2"
        ccall == IF done THEN NoCall ELSE a
        cres == IF done THEN Finished(c, "put", outcome, a.task_id, {}, NoEntry)
                ELSE NoResult
        mine == IF outcome # "ok" THEN NoPut
                ELSE IF i = 1
                THEN [isput |-> TRUE, quiet |-> lists[key] = <<>> /\ blocked[key] = <<>>,
                      task_id |-> a.task_id, kind |-> a.kind, payload |-> a.payload]
                ELSE lastput[c]
    IN  /\ IF outcome = "ok" /\ PutOps[i] = "hset"
           THEN /\ hashes' = [hashes EXCEPT ![hkey] = HSet(@, a.kind, JsonDumps(a.payload))]
                /\ pc' = [pc EXCEPT ![c] = cpc]
                /\ call' = [call EXCEPT ![c] = ccall]
                /\ result' = Returns(c, cres)
                /\ UNCHANGED <<lists, blocked, npush, lastPop, pops, appends>>
           ELSE IF outcome = "ok"
           THEN /\ Push(c, key, a.task_id, "put", a.kind, cpc, ccall, cres)
                /\ UNCHANGED hashes
           ELSE /\ pc' = [pc EXCEPT ![c] = cpc]
                /\ call' = [call EXCEPT ![c] = ccall]
                /\ result' = Returns(c, cres)
                /\ UNCHANGED <<lists, hashes, blocked, npush, lastPop, pops, appends>>
        /\ UNCHANGED <<endpoint, redis_client, created, up, task>>
        /\ Track(c, mine)

\* put(task_id, kind, payload), up to the end of its first command
PutCall(c, t, k, p) ==
    /\ pc[c] = "idle"
    /\ started < MaxCalls
    /\ started' = started + 1
    /\ IF NotConnected(c)
       THEN /\ result' = Returns(c, Finished(c, "put", "NotConnected", t, {}, NoEntry))
            /\ UNCHANGED <<endpoint, redis_client, created, up, lists, hashes,
                           blocked, task, pc, call, npush, lastPop, pops, appends>>
            /\ Track(c, NoPut)
       ELSE /\ PutOp(c, 1, [NoCall EXCEPT !.op = "put", !.task_id = t, !.kind = k,
                                          !.payload = p])

\* the second command of a put
PutResume(c) ==
    /\ pc[c] = "put2"
    /\ UNCHANGED started
    /\ PutOp(c, 2, call[c])

(***************************************************************************)
(* BLPOP of get and dequeue.  op is "get" or "dequeue"; unconnected is the *)
(* error a call on an instance without connection ends with.               *)
(***************************************************************************)
Blpop(c, op, k, tmo, unconnected) ==
    LET key == QueueName(endpoint[c])
        outcome == IF NotConnected(c) THEN unconnected ELSE ListCommand(key)
        mine == IF op = "get" /\ lastput[c].isput /\ lastput[c].kind = k
                THEN lastput[c] ELSE NoPut
    IN  /\ pc[c] = "idle"
        /\ IF outcome # "ok"
           THEN /\ result' = Returns(c, [Finished(c, op, outcome, "", {}, NoEntry)
                                           EXCEPT !.after = mine])
                /\ UNCHANGED <<lists, blocked, pc, call, lastPop, pops>>
           ELSE IF lists[key] # <<>>
           THEN /\ lists' = [lists EXCEPT ![key] = LPopRest(@)]
                /\ lastPop' = [lastPop EXCEPT ![key] = LPopped(lists[key]).seq]
                /\ pops' = [pops EXCEPT ![key][LPopped(lists[key]).id] = @ + 1]
                /\ IF op = "get"
                   THEN /\ pc' = [pc EXCEPT ![c] = "get2"]
                        /\ call' = [call EXCEPT ![c] =
                                      [NoCall EXCEPT !.op = op, !.kind = k, !.timeout = tmo,
                                                     !.task_id = LPopped(lists[key]).id,
                                                     !.entry = LPopped(lists[key])]]
                        /\ result' = NoReturn
                   ELSE /\ result' = Returns(c,
                                        Finished(c, op, "ok", TaskFromId(LPopped(lists[key]).id),
                                                 {}, LPopped(lists[key])))
                        /\ UNCHANGED <<pc, call>>
                /\ UNCHANGED blocked
           ELSE /\ blocked' = [blocked EXCEPT ![key] = Append(@, c)]
                /\ pc' = [pc EXCEPT ![c] = "blocked"]
                /\ call' = [call EXCEPT ![c] =
                              [NoCall EXCEPT !.op = op, !.kind = k, !.timeout = tmo]]
                /\ result' = NoReturn
                /\ UNCHANGED <<lists, lastPop, pops>>
        /\ UNCHANGED <<endpoint, redis_client, created, up, hashes, task, npush, appends>>
        /\ Track(c, IF outcome = "ok" THEN mine ELSE NoPut)

\* RedisQueue.get(kind, timeout), up to the end of its BLPOP or to blocking in it
GetCall(c, k, tmo) ==
    /\ started < MaxCalls
    /\ started' = started + 1
    /\ Blpop(c, "get", k, tmo, "NotConnected")

\* EndpointQueue.dequeue(timeout): no try/except, the AttributeError propagates
Dequeue(c, tmo) ==
    /\ started < MaxCalls
    /\ started' = started + 1
    /\ Blpop(c, "dequeue", "", tmo, "AttributeError")

\* the HGET and json.loads of a get that popped a task id
GetHget(c) ==
    LET hkey == HashKey(call[c].task_id)
        outcome == IF HashCommand(hkey) # "ok" THEN HashCommand(hkey)
                   ELSE Decode(hashes[hkey], call[c].kind)
        info == IF outcome = "ok" /\ call[c].kind \in DOMAIN hashes[hkey]
                THEN JsonLoads(hashes[hkey][call[c].kind]) ELSE {}
    IN  /\ pc[c] = "get2"
        /\ pc' = [pc EXCEPT ![c] = "idle"]
        /\ call' = [call EXCEPT ![c] = NoCall]
        /\ result' = Returns(c, Finished(c, "get", outcome,
                                          IF outcome = "ok" THEN call[c].task_id ELSE "",
                                          info, call[c].entry))
        /\ UNCHANGED <<endpoint, redis_client, created, up, lists, hashes,
                       blocked, task, started, npush, lastPop, pops, appends>>
        /\ Track(c, NoPut)

\* (variant: a pop that does not wait)
ExpiredAtOnce(c) == call[c].timeout > 0

\* the timeout of a BLPOP has elapsed: it returns nil, the call raises queue.Empty
Expired(c) == call[c].timeout > 0 /\ call[c].waited >= call[c].timeout

Timeout(c) ==
    LET key == QueueName(endpoint[c])
    IN  /\ pc[c] = "blocked"
        /\ up
        /\ Expired(c)
        /\ blocked' = [blocked EXCEPT ![key] = SelectSeq(@, LAMBDA d : d # c)]
        /\ pc' = [pc EXCEPT ![c] = "idle"]
        /\ result' = Returns(c, [Finished(c, call[c].op, "Empty", "", {}, NoEntry)
                                    EXCEPT !.timeout = call[c].timeout,
                                           !.waited = call[c].waited])
        /\ call' = [call EXCEPT ![c] = NoCall]
        /\ UNCHANGED <<endpoint, redis_client, created, up, lists, hashes,
                       task, started, npush, lastPop, pops, appends>>
        /\ Track(c, NoPut)

\* one second passes for every blocked client; no timeout is overrun
Tick ==
    /\ \E c \in Clients : pc[c] = "blocked" /\ call[c].timeout > 0
    /\ \A c \in Clients : pc[c] = "blocked" => ~Expired(c)
    /\ call' = [c \in Clients |->
                  IF pc[c] = "blocked" /\ call[c].timeout > 0
                  THEN [call[c] EXCEPT !.waited = @ + 1] ELSE call[c]]
    /\ result' = NoReturn
    /\ UNCHANGED <<endpoint, redis_client, created, up, lists, hashes, blocked,
                   task, pc, started, npush, lastPop, pops, appends, lastput>>

(***************************************************************************)
(* EndpointQueue.enqueue                                                   *)
(***************************************************************************)
\* (variants: the fields are class attributes, set for every task; the
\* fields are set after the append, when it succeeded)
SetFieldsOfAll(tk, t, e, outcome) ==
    [u \in DOMAIN tk |-> [endpoint |-> e, status |-> WAITING_FOR_EP]]
SetFieldsIfPushed(tk, t, e, outcome) ==
    IF outcome = "ok" THEN [tk EXCEPT ![t] = [endpoint |-> e, status |-> WAITING_FOR_EP]]
    ELSE tk

\* task.endpoint = self.endpoint; task.status = TaskState.WAITING_FOR_EP:
\* both before the rpush, whatever its outcome
SetFields(tk, t, e, outcome) ==
    [tk EXCEPT ![t] = [endpoint |-> e, status |-> WAITING_FOR_EP]]

Enqueue(c, t) ==
    LET key == QueueName(endpoint[c])
        outcome == IF NotConnected(c) THEN "AttributeError" ELSE ListCommand(key)
        cres == Finished(c, "enqueue", outcome, t, {}, NoEntry)
    IN  /\ pc[c] = "idle"
        /\ started < MaxCalls
        /\ started' = started + 1
        /\ task' = SetFields(task, t, endpoint[c], outcome)
        /\ IF outcome = "ok"
           THEN Push(c, key, t, "enqueue", "", "idle", NoCall, cres)
           ELSE /\ result' = Returns(c, cres)
                /\ UNCHANGED <<lists, blocked, pc, call, npush, lastPop, pops, appends>>
        /\ UNCHANGED <<endpoint, redis_client, created, up, hashes>>
        /\ Track(c, NoPut)

(***************************************************************************)
(* The store becomes unreachable (every blocked BLPOP fails with a         *)
(* ConnectionError) and reachable again; its data is kept.                 *)
(***************************************************************************)
StoreDown ==
    /\ up
    /\ up' = FALSE
    /\ blocked' = [key \in ListKeys |-> <<>>]
    /\ pc' = [c \in Clients |-> IF pc[c] = "blocked" THEN "idle" ELSE pc[c]]
    /\ call' = [c \in Clients |-> IF pc[c] = "blocked" THEN NoCall ELSE call[c]]
    /\ result' = [c \in Clients |->
                    IF pc[c] = "blocked"
                    THEN Finished(c, call[c].op, "ConnectionError", "", {}, NoEntry)
                    ELSE NoResult]
    /\ lastput' = [c \in Clients |->
                     IF pc[c] = "blocked" THEN NoPut
                     ELSE IF blocked' # blocked THEN [lastput[c] EXCEPT !.quiet = FALSE]
                     ELSE lastput[c]]
    /\ UNCHANGED <<endpoint, redis_client, created, lists, hashes, task,
                   started, npush, lastPop, pops, appends>>

StoreUp ==
    /\ ~up
    /\ up' = TRUE
    /\ result' = NoReturn
    /\ UNCHANGED <<endpoint, redis_client, created, lists, hashes, blocked,
                   task, pc, call, started, npush, lastPop, pops, appends, lastput>>

Next ==
    \/ \E c \in Clients : Connect(c)
    \/ \E c \in Clients : IsConnected(c)
    \/ \E c \in Clients, t \in TaskIds, k \in Kinds, p \in Payloads : PutCall(c, t, k, p)
    \/ \E c \in Clients : PutResume(c)
    \/ \E c \in Clients, k \in Kinds, tmo \in Timeouts : GetCall(c, k, tmo)
    \/ \E c \in Clients : GetHget(c)
    \/ \E c \in Clients, tmo \in Timeouts : Dequeue(c, tmo)
    \/ \E c \in Clients, t \in TaskIds : Enqueue(c, t)
    \/ \E c \in Clients : Timeout(c)
    \/ Tick
    \/ StoreDown
    \/ StoreUp

Spec == Init /\ [][Next]_vars

(***************************************************************************)
(* The worker loop: the consumer Worker calls dequeue(timeout) again and   *)
(* again, after every result and every error, and makes no other call but  *)
(* connect(); the other instances make their calls as before.  The store   *)
(* stays reachable.  The loop goes on (weak fairness of its steps) and     *)
(* time passes.                                                            *)
(***************************************************************************)
Worker == "c2"
Others == Clients \ {Worker}

WorkerDequeue(tmo) ==
    /\ UNCHANGED started
    /\ Blpop(Worker, "dequeue", "", tmo, "AttributeError")

LiveNext ==
    \/ \E c \in Clients : Connect(c)
    \/ \E tmo \in Timeouts : WorkerDequeue(tmo)
    \/ \E c \in Clients : Timeout(c)
    \/ Tick
    \/ \E c \in Others, t \in TaskIds, k \in Kinds, p \in Payloads : PutCall(c, t, k, p)
    \/ \E c \in Others : PutResume(c)
    \/ \E c \in Others, k \in Kinds, tmo \in Timeouts : GetCall(c, k, tmo)
    \/ \E c \in Others : GetHget(c)
    \/ \E c \in Others, tmo \in Timeouts : Dequeue(c, tmo)
    \/ \E c \in Others, t \in TaskIds : Enqueue(c, t)

LiveSpec ==
    /\ Init
    /\ [][LiveNext]_vars
    /\ WF_vars(\E tmo \in Timeouts : WorkerDequeue(tmo))
    /\ WF_vars(Timeout(Worker))
    /\ WF_vars(Tick)

(***************************************************************************)
(* Properties.                                                             *)
(***************************************************************************)
Ids(l) == [i \in 1..Len(l) |-> l[i].id]
Count(l, t) == Cardinality({i \in 1..Len(l) : l[i].id = t})
Field(t, k) == hashes[HashKey(t)][k]
HasField(t, k) == k \in DOMAIN hashes[HashKey(t)]

\* what Python's json gives back for a dict: str keys, lists for tuples
RoundTrip(p) ==
    {[kty |-> "str", k |-> i.k, vty |-> IF i.vty = "tuple" THEN "list" ELSE i.vty,
      v |-> i.v] : i \in p}

\* C1 (as claimed): a get(kind) that follows a put(task_id, kind, payload) of the
\* same instance and returns, returns (task_id, payload) with the payload that
\* was put (read as: equal after the JSON round trip).
C1_PutThenGet ==
    \A c \in Clients :
        (result[c].op = "get" /\ result[c].status = "ok" /\ result[c].after.isput)
            => /\ result[c].task_id = result[c].after.task_id
               /\ result[c].payload = RoundTrip(result[c].after.payload)

\* C1 (amended): when the list was empty with no consumer blocked on it at the
\* put, and no other client changed the store from the put to the end of the
\* get, the get ends with (task_id, payload after a JSON round trip) unless the
\* store became unreachable.
C1_PutThenGetAlone ==
    \A c \in Clients :
        (/\ result[c].op = "get"
         /\ result[c].after.isput
         /\ result[c].after.quiet
         /\ result[c].status # "ConnectionError")
            => /\ result[c].status = "ok"
               /\ result[c].task_id = result[c].after.task_id
               /\ result[c].payload = RoundTrip(result[c].after.payload)

C1_Witness ==
    \E c \in Clients :
        /\ result[c].op = "get" /\ result[c].status = "ok"
        /\ result[c].after.isput /\ result[c].after.quiet
        /\ result[c].after.payload = PayIntKey

\* C2: an id appended by put(task_id, kind, payload) is in a list, or popped by
\* a get that has not read the hash yet, only while the hash record of task_id
\* has the field kind: the payload is written before the id can be popped.
C2_PayloadBeforeId ==
    /\ \A key \in ListKeys : \A i \in 1..Len(lists[key]) :
           lists[key][i].by = "put" => HasField(lists[key][i].id, lists[key][i].kind)
    /\ \A c \in Clients :
           (pc[c] = "get2" /\ call[c].entry.by = "put")
               => HasField(call[c].entry.id, call[c].entry.kind)

\* a get that was blocked while a put of another client was under way has
\* popped the id of that put, which returns in this step
C2_Witness ==
    \E c, d \in Clients :
        /\ c # d
        /\ pc[c] = "get2" /\ call[c].entry.by = "put" /\ call[c].entry.kind = call[c].kind
        /\ result[d].op = "put" /\ result[d].status = "ok"
        /\ result[d].task_id = call[c].task_id

\* C3: a get or put on an instance without connection ends with NotConnected and
\* changes no list and no hash record.
C3_NotConnected ==
    [][\A c \in Clients :
          (result'[c].op \in {"get", "put"} /\ result'[c].had = None)
              => /\ result'[c].status = "NotConnected"
                 /\ lists' = lists
                 /\ hashes' = hashes]_vars

C3_Witness ==
    \E c \in Clients :
        /\ result[c].op = "put" /\ result[c].had = None
        /\ result[c].status = "NotConnected"
        /\ \E key \in ListKeys : lists[key] # <<>>

\* C4: after a connect() the instance has built exactly one connection, and a
\* connect() on an instance that has a handle keeps that handle.
C4_ConnectOnce ==
    \A c \in Clients :
        result[c].op = "connect"
            => /\ created[c] = 1
               /\ redis_client[c] # None
               /\ result[c].had # None => redis_client[c] = result[c].had

C4_Witness ==
    \E c \in Clients : result[c].op = "connect" /\ result[c].had # None

\* C5 (as claimed): after an enqueue(task) that returned, the fields of the
\* task are set and task_id is the last element of the list of the endpoint.
C5_EnqueuedAtTail ==
    \A c \in Clients :
        (result[c].op = "enqueue" /\ result[c].status = "ok")
            => /\ task[result[c].task_id] =
                      [endpoint |-> endpoint[c], status |-> WAITING_FOR_EP]
               /\ lists[QueueName(endpoint[c])] # <<>>
               /\ Ids(lists[QueueName(endpoint[c])])[Len(lists[QueueName(endpoint[c])])]
                      = result[c].task_id

\* C5 (amended): an enqueue(task) that returns has set the fields of the task;
\* with no consumer blocked on the list, the list is then the list of before
\* with task_id appended; with a consumer blocked on it the list was empty, is
\* empty afterwards, and the consumer blocked longest has received task_id.
C5_EnqueuedOrServed ==
    [][\A c \in Clients :
          (result'[c].op = "enqueue" /\ result'[c].status = "ok")
              => LET t == result'[c].task_id
                     key == QueueName(endpoint[c])
                 IN  /\ task'[t] = [endpoint |-> endpoint[c], status |-> WAITING_FOR_EP]
                     /\ IF blocked[key] = <<>>
                        THEN Ids(lists'[key]) = Append(Ids(lists[key]), t)
                        ELSE /\ lists[key] = <<>> /\ lists'[key] = <<>>
                             /\ blocked'[key] = Tail(blocked[key])
                             /\ \/ call'[Head(blocked[key])].task_id = t
                                \/ result'[Head(blocked[key])].task_id = t]_vars

C5_Witness ==
    \E c \in Clients :
        /\ result[c].op = "enqueue" /\ result[c].status = "ok"
        /\ Len(lists[QueueName(endpoint[c])]) >= 2

\* C6: a get or dequeue ends with Empty only when its timeout has elapsed in
\* full; while a client is blocked on a list the list is empty; and neither
\* the step that blocks it nor the step that ends the call with Empty changes a
\* list or a hash record.
C6_EmptyAfterTimeout ==
    [][\A c \in Clients :
          /\ result'[c].status = "Empty"
                => /\ result'[c].timeout > 0
                   /\ result'[c].waited = result'[c].timeout
                   /\ pc[c] = "blocked"
                   /\ lists' = lists /\ hashes' = hashes
          /\ pc'[c] = "blocked"
                => /\ lists'[QueueName(endpoint[c])] = <<>>
                   /\ pc[c] = "idle" => (lists' = lists /\ hashes' = hashes)]_vars

C6_Witness ==
    \E c \in Clients :
        /\ result[c].status = "Empty" /\ result[c].op = "get"
        /\ result[c].waited = MaxTimeout
        /\ \E key \in ListKeys : lists[key] # <<>>

C7_WitnessOther ==
    \E c, d \in Clients :
        /\ endpoint[c] # endpoint[d]
        /\ result[d].op = "dequeue" /\ result[d].status = "Empty"
        /\ lists[QueueName(endpoint[c])] # <<>>
        /\ lists[QueueName(endpoint[c])][1].by = "enqueue"

\* C8: the step of a put(task_id, kind, payload) that writes the hash sets the
\* field kind of task_<task_id> to the JSON text of payload and changes no other
\* field of that record and no other record; nothing else changes a record.
\* Hence in every interleaving of two puts of the same task_id with different
\* kinds by two instances (the only calls made), both fields hold what their
\* put wrote.
C8_OnlyItsField ==
    /\ [][\A t \in TaskIds :
             hashes'[HashKey(t)] # hashes[HashKey(t)]
                 => \E c \in Clients :
                        /\ pc[c] = "idle" /\ call'[c].op = "put"
                        /\ call'[c].task_id = t
                        /\ DOMAIN hashes'[HashKey(t)] =
                               DOMAIN hashes[HashKey(t)] \cup {call'[c].kind}
                        /\ \A f \in DOMAIN hashes[HashKey(t)] \ {call'[c].kind} :
                               hashes'[HashKey(t)][f] = hashes[HashKey(t)][f]
                        /\ \A u \in TaskIds \ {t} : hashes'[HashKey(u)] = hashes[HashKey(u)]]_vars
    /\ [][\A c \in Clients :
             (pc[c] = "idle" /\ pc'[c] = "put2")
                 => /\ call'[c].kind \in DOMAIN hashes'[HashKey(call'[c].task_id)]
                    /\ hashes'[HashKey(call'[c].task_id)][call'[c].kind]
                           = JsonDumps(call'[c].payload)]_vars
    /\ [](\A c, d \in Clients :
             (/\ c # d
              /\ started = 2
              /\ lastput[c].isput /\ lastput[d].isput
              /\ lastput[c].task_id = lastput[d].task_id
              /\ lastput[c].kind # lastput[d].kind)
                 => /\ HasField(lastput[c].task_id, lastput[c].kind)
                    /\ Field(lastput[c].task_id, lastput[c].kind) = JsonDumps(lastput[c].payload))

\* two producers have finished a put of the same task with different kinds and
\* different payloads
C8_Witness ==
    \E c, d \in Clients :
        /\ c # d
        /\ started = 2
        /\ pc[c] = "idle" /\ pc[d] = "idle"
        /\ lastput[c].isput /\ lastput[d].isput
        /\ lastput[c].task_id = lastput[d].task_id
        /\ lastput[c].kind # lastput[d].kind
        /\ lastput[c].payload # lastput[d].payload

\* C9 (as claimed): no list contains the same task id twice.
C9_NoDuplicates ==
    \A key \in ListKeys : \A t \in TaskIds : Count(lists[key], t) <= 1

\* C9 (amended): a list contains a task id at most as many times as the id was
\* appended to it by put and enqueue; it holds no id twice as long as each id
\* was appended to it at most once.
C9_NoDuplicatesOfOneAppend ==
    \A key \in ListKeys : \A t \in TaskIds : Count(lists[key], t) <= appends[key][t]

C9_Witness ==
    \E key \in ListKeys :
        /\ Len(lists[key]) = 2
        /\ \A t \in TaskIds : Count(lists[key], t) = 1 /\ appends[key][t] = 1

\* C10: the ids of a list leave it in the order of their appends: every entry
\* of a list was appended after the entry popped last from it, and the entries
\* are in the order of their appends.
C10_Fifo ==
    \A key \in ListKeys :
        /\ \A i \in 1..Len(lists[key]) : lists[key][i].seq > lastPop[key]
        /\ \A i, j \in 1..Len(lists[key]) : i < j => lists[key][i].seq < lists[key][j].seq

\* a dequeue has popped the older of two entries, the younger is still there
C10_Witness ==
    \E c \in Clients :
        /\ result[c].op = "dequeue" /\ result[c].status = "ok"
        /\ lists[QueueName(endpoint[c])] # <<>>
        /\ result[c].entry.seq < lists[QueueName(endpoint[c])][1].seq

\* C11 (as claimed): every get, put, enqueue or dequeue on an instance without
\* connection ends with NotConnected.
C11_NotConnectedAlways ==
    \A c \in Clients :
        (result[c].op \in {"get", "put", "enqueue", "dequeue"} /\ result[c].had = None)
            => result[c].status = "NotConnected"

\* C12 (as claimed): a connect() while the store is unreachable ends with a
\* ConnectionError and leaves the instance without connection.
C12_ConnectFailsWhenDown ==
    \A c \in Clients :
        (result[c].op = "connect" /\ ~up)
            => /\ result[c].status = "ConnectionError"
               /\ redis_client[c] = None

\* C13: an instance has a connection handle (is_connected is true) exactly when
\* it has built a connection, so a new instance has none; once is_connected is
\* true it is true in every later state, whatever call is made and however it
\* ends; and a read of is_connected gives that value and changes no state.
C13_Lifecycle ==
    /\ [](\A c \in Clients : is_connected(c) <=> created[c] > 0)
    /\ [][\A c \in Clients :
             /\ is_connected(c) => is_connected(c)'
             /\ result'[c].op = "is_connected"
                   => /\ result'[c].status = IF created[c] > 0 THEN "True" ELSE "False"
                      /\ UNCHANGED <<endpoint, redis_client, created, up, lists, hashes,
                                     blocked, task, pc, call, started, npush, lastPop, pops,
                                     appends, lastput>>]_vars

\* a call of a connected instance has failed and the instance is still connected
C13_Witness ==
    \E c \in Clients :
        /\ result[c].op \in {"get", "put", "enqueue", "dequeue"}
        /\ result[c].status \in {"ConnectionError", "ResponseError", "TypeError"}
        /\ result[c].had # None
        /\ is_connected(c)

\* the clients that receive an entry from the store in a step, and the entry
Receives(c) ==
    \/ pc[c] # "get2" /\ pc'[c] = "get2"
    \/ result'[c].op = "dequeue" /\ result'[c].status = "ok"
Received(c) == IF pc'[c] = "get2" THEN call'[c].entry ELSE result'[c].entry

\* C14: with several consumers in get or dequeue on one list, in every state
\* the list holds each id as many times as it was appended and not yet popped;
\* an entry a consumer receives was never popped before, no two consumers
\* receive the same entry, and every pop is received by exactly one consumer.
C14_PoppedOnce ==
    /\ [](\A key \in ListKeys : \A t \in TaskIds :
             Count(lists[key], t) = appends[key][t] - pops[key][t])
    /\ [][\A key \in ListKeys :
             LET got == {c \in Clients : QueueName(endpoint[c]) = key /\ Receives(c)}
             IN  /\ \A c \in got : /\ Received(c).seq > lastPop[key]
                                   /\ Received(c).seq <= npush'
                                   /\ \A i \in 1..Len(lists'[key]) :
                                          lists'[key][i].seq # Received(c).seq
                 /\ \A c, d \in got : c # d => Received(c).seq # Received(d).seq
                 /\ \A t \in TaskIds :
                        pops'[key][t] - pops[key][t]
                            = Cardinality({c \in got : Received(c).id = t})]_vars

\* two consumers are in a get and a dequeue on the same list at the same time:
\* one has popped the only id, the other is blocked
C14_Witness ==
    \E c, d \in Clients :
        /\ c # d /\ endpoint[c] = endpoint[d]
        /\ pc[c] = "get2" /\ pc[d] = "blocked" /\ call[d].op = "dequeue"
        /\ lists[QueueName(endpoint[c])] = <<>>

\* the entry of append number n waits in the list of the worker's endpoint,
\* put there by an enqueue, and the worker is connected
Enqueued(n) ==
    /\ is_connected(Worker)
    /\ \E i \in 1..Len(lists[QueueName(endpoint[Worker])]) :
           /\ lists[QueueName(endpoint[Worker])][i].seq = n
           /\ lists[QueueName(endpoint[Worker])][i].by = "enqueue"
DequeueReturned(n) ==
    \E c \in Clients :
        result[c].op = "dequeue" /\ result[c].status = "ok" /\ result[c].entry.seq = n
GetPopped(n) ==
    \E c \in Clients : pc[c] = "get2" /\ call[c].entry.seq = n

\* C15 (as claimed): a task id enqueued on the endpoint of a connected consumer
\* that keeps calling dequeue is eventually returned by a dequeue on that
\* endpoint.
C15_EventuallyDequeued ==
    \A n \in 1..MaxCalls : Enqueued(n) ~> DequeueReturned(n)

\* C15 (amended): it is eventually popped from the list: returned by a dequeue
\* on that endpoint, unless a get on the same list pops it first.
C15_EventuallyPopped ==
    \A n \in 1..MaxCalls : Enqueued(n) ~> (DequeueReturned(n) \/ GetPopped(n))

\* the worker, after a dequeue that ended with Empty, is returned the task that
\* was enqueued behind another one
C15_Witness ==
    /\ result[Worker].op = "dequeue" /\ result[Worker].status = "ok"
    /\ result[Worker].entry.by = "enqueue"
    /\ result[Worker].entry.seq = 2
    /\ lastPop[QueueName(endpoint[Worker])] = 2
    /\ pops[QueueName(endpoint[Worker])][result[Worker].task_id] >= 1

C19_FieldsSetOnFailure ==
    [][\A c \in Clients :
          (result'[c].op = "enqueue" /\ result'[c].status # "ok")
              => /\ result'[c].status \in {"AttributeError", "ConnectionError", "ResponseError"}
                 /\ task'[result'[c].task_id] =
                        [endpoint |-> endpoint[c], status |-> WAITING_FOR_EP]
                 /\ task[result'[c].task_id].status = CREATED
                        => task'[result'[c].task_id] # task[result'[c].task_id]
                 /\ lists' = lists
                 /\ appends' = appends /\ npush' = npush]_vars

\* the enqueue of a task that was never appended to a list has failed on the
\* unreachable store; the task is WAITING_FOR_EP
C19_Witness ==
    \E c \in Clients :
        /\ result[c].op = "enqueue" /\ result[c].status = "ConnectionError"
        /\ task[result[c].task_id] = [endpoint |-> endpoint[c], status |-> WAITING_FOR_EP]
        /\ \A key \in ListKeys : appends[key][result[c].task_id] = 0

\* C17: the step that ends a get after its pop.  When the popped id has no
\* payload for kind, when the payload is no JSON, or when the store has become
\* unreachable since the pop, the get ends with an error and returns no pair;
\* and a get that ends with an error after its pop leaves the lists as they
\* are: the popped entry is in no list, it was counted as popped, and nothing
\* is pushed back.
C17_FailedGetConsumes ==
    [][\A c \in Clients :
          (pc[c] = "get2" /\ result'[c].op = "get")
              => LET h == hashes[HashKey(call[c].task_id)]
                     k == call[c].kind
                     key == QueueName(endpoint[c])
                     fails == \/ ~up
                              \/ k \notin DOMAIN h
                              \/ (k \in DOMAIN h /\ ~Decodable(h[k]))
                 IN  /\ fails => /\ result'[c].status \in {"ConnectionError", "ResponseError",
                                                            "TypeError", "JSONDecodeError"}
                                 /\ result'[c].task_id = "" /\ result'[c].payload = {}
                     /\ result'[c].status # "ok"
                            => /\ lists' = lists
                               /\ npush' = npush
                               /\ pops[key][call[c].entry.id] >= 1
                               /\ \A i \in 1..Len(lists'[key]) :
                                      lists'[key][i].seq # call[c].entry.seq]_vars

\* a get has popped an id whose payload is no JSON
C17_Witness ==
    \E c \in Clients :
        /\ result[c].op = "get" /\ result[c].status = "JSONDecodeError"
        /\ result[c].entry.id = ForeignTask
        /\ lists[QueueName(endpoint[c])] = <<>>

\* a get has popped an id pushed by enqueue, which has no payload
C17_WitnessNoPayload ==
    \E c \in Clients :
        /\ result[c].op = "get" /\ result[c].status = "TypeError"
        /\ result[c].entry.by = "enqueue"

\* the store became unreachable between the pop and the hash read of a get
C17_WitnessDropped ==
    \E c \in Clients :
        /\ result[c].op = "get" /\ result[c].status = "ConnectionError"
        /\ result[c].entry.by = "put"
        /\ HasField(result[c].entry.id, result[c].entry.kind)

\* C18: the step in which a put ends with a ConnectionError changes no list and
\* no hash record, and the put has appended no entry before it; when the
\* failure hits the append (the hash write was done), the field kind of the
\* record is still there.
C18_FailedPutNotQueued ==
    [][\A c \in Clients :
          (result'[c].op = "put" /\ result'[c].status = "ConnectionError")
              => /\ lists' = lists /\ hashes' = hashes
                 /\ npush' = npush /\ appends' = appends
                 /\ call[c].entry = NoEntry
                 /\ pc[c] = "put2"
                       => call[c].kind \in DOMAIN hashes'[HashKey(call[c].task_id)]]_vars

\* the only call made is a put that wrote its payload and failed at the append
C18_Witness ==
    \E c \in Clients :
        /\ result[c].op = "put" /\ result[c].status = "ConnectionError"
        /\ started = 1
        /\ HasField(result[c].task_id, "result")
        /\ \A key \in ListKeys : lists[key] = <<>>

\* C20 (as claimed): the hash key of the task id of a put that wrote its payload
\* is the list key of no endpoint.
C20_KeysApart ==
    \A c \in Clients :
        (result[c].op = "put" /\ result[c].status = "ok")
            => \A e \in Endpoints : HashKey(result[c].task_id) # QueueName(e)

\* C20 (amended): distinct endpoints have distinct list keys; the list key of
\* endpoint e is the hash key of task id t exactly when t is <e>_list; and a
\* key that is both never holds a list of pending ids and a payload hash at
\* once (the store refuses the command of the other type).
C20_KeysTyped ==
    /\ \A e1, e2 \in Endpoints : QueueName(e1) = QueueName(e2) => e1 = e2
    /\ \A e \in Endpoints : \A t \in TaskIds :
           QueueName(e) = HashKey(t) <=> t = e \o "_list"
    /\ \A key \in ListKeys \cap HashKeys : lists[key] = <<>> \/ hashes[key] = EmptyHash

\* a put of the task id a_list is refused while the list of endpoint a holds an
\* id: its hash key is that list
C20_Witness ==
    \E c \in Clients :
        /\ result[c].op = "put" /\ result[c].status = "ResponseError"
        /\ HashKey(result[c].task_id) \in ListKeys
        /\ lists[HashKey(result[c].task_id)] # <<>>

\* an enqueue is refused: the list key of its endpoint holds a payload hash
C20_WitnessReverse ==
    \E c \in Clients :
        /\ result[c].op = "enqueue" /\ result[c].status = "ResponseError"
        /\ hashes[QueueName(endpoint[c])] # EmptyHash

====
